---- MODULE Spec2Model ----
(***************************************************************************)
(* Novelty functional engine (NoveltyEngine.compute), its evaluation loop  *)
(* (run_simulation_2d) and the power-measurement rig (master_controller,   *)
(* run_instance) of src/unnamed/part_000.                                  *)
(*                                                                         *)
(* Floats are modelled as exact rationals [n, d] (d > 0, lowest terms):    *)
(* rounding is not modelled.  The language model is a small mock: a        *)
(* tokenizer, a table of KL values, a table of per-parameter gradients,    *)
(* and a dropout perturbation that is active only in training mode.        *)
(***************************************************************************)
EXTENDS Integers, Sequences, FiniteSets, TLC

VARIABLES
    \* ---- the shared model object (torch module)
    training,       \* module.training: TRUE = train mode (dropout active)
    params,         \* parameter values, by parameter name
    grads,          \* p.grad by parameter name: <<>> is None, <<g>> a value
    \* ---- the engine and the frame of one compute call
    config,         \* NoveltyEngine.config
    pc,             \* position inside compute
    text,           \* compute's argument
    inputs,         \* token count of the tokenized input (inputs.input_ids.shape[1])
    kl,             \* float(kl)
    lossDropout,    \* whether dropout was active in the Step 2 forward pass
    fisher_trace,
    result,         \* the returned dict
    err,            \* the exception that left compute, "" when none
    fwdCalls,       \* forward passes run by the current call
    \* ---- a client calling compute directly
    history,        \* what each finished call gave its caller
    \* ---- run_simulation_2d
    simpc, texts, i, data_log, metrics, console, plot, csv, csvWritten, surfaced,
    \* ---- the novelty formula applied to drawn inputs
    f_in, f_tokens, f_out,
    \* ---- the power-measurement rig
    mpc,            \* master_controller's position
    fut,            \* per worker: the future's state
    wpc,            \* per worker: position inside run_instance's loop body
    round,          \* per worker: rounds completed
    ser_lock,       \* holder of ser_lock, 0 when free
    pollIdx,        \* the future the any(f.running() ...) scan looks at next
    serOpen,        \* the serial port is open
    onWire,         \* workers that wrote and have not yet read back
    statsLen,       \* len(stats['cpu_watts'])
    summary         \* the final summary: <<>> until computed

engineVars == <<training, params, grads, config, pc, text, inputs, kl, lossDropout,
                fisher_trace, result, err, fwdCalls>>
clientVars == <<history>>
simVars == <<simpc, texts, i, data_log, metrics, console, plot, csv, csvWritten, surfaced>>
formulaVars == <<f_in, f_tokens, f_out>>
rigVars == <<mpc, fut, wpc, round, ser_lock, pollIdx, serOpen, onWire, statsLen,
            summary>>
vars == <<engineVars, clientVars, simVars, formulaVars, rigVars>>

(***************************************************************************)
(* Bounds of the model.                                                    *)
(***************************************************************************)
MaxCalls == 3       \* direct compute calls a client makes
MaxTexts == 3       \* length of the text list given to run_simulation_2d
MaxTokenCount == 4  \* token counts the formula is applied to
INSTANCES == 2      \* run_instance workers (5 in the source)
ROUNDS_PER_INST == 2 \* rounds per worker (25 in the source)

(***************************************************************************)
(* Exact rationals.                                                        *)
(***************************************************************************)
Abs(x) == IF x < 0 THEN -x ELSE x

RECURSIVE GCD(_, _)
GCD(a, b) == IF b = 0 THEN a ELSE GCD(b, a % b)

\* n/d in lowest terms with a positive denominator (d # 0)
Rat(n, d) ==
    LET g == GCD(Abs(n), Abs(d))
        s == IF d < 0 THEN -1 ELSE 1
    IN  [n |-> s * (n \div g), d |-> s * (d \div g)]

RInt(k) == [n |-> k, d |-> 1]
RZero == RInt(0)

RAdd(a, b) == Rat(a.n * b.d + b.n * a.d, a.d * b.d)

\* product, cancelling across before multiplying
RMul(a, b) ==
    IF a.n = 0 \/ b.n = 0 THEN RZero
    ELSE LET g1 == GCD(Abs(a.n), b.d)
             g2 == GCD(Abs(b.n), a.d)
         IN  Rat((a.n \div g1) * (b.n \div g2), (a.d \div g2) * (b.d \div g1))

\* a / b for b # 0
RDiv(a, b) == RMul(a, Rat(b.d, b.n))

\* a/b < c/d for b, d > 0, by comparing continued-fraction expansions
RECURSIVE FracLT(_, _, _, _)
FracLT(a, b, c, d) ==
    LET q1 == a \div b
        q2 == c \div d
        r1 == a % b
        r2 == c % d
    IN  IF q1 # q2 THEN q1 < q2
        ELSE IF r2 = 0 THEN FALSE
        ELSE IF r1 = 0 THEN TRUE
        ELSE FracLT(d, r2, b, r1)

RLT(a, b) == FracLT(a.n, a.d, b.n, b.d)
RGT(a, b) == RLT(b, a)
RLE(a, b) == ~RLT(b, a)

(***************************************************************************)
(* The mock language model.                                                *)
(***************************************************************************)
None == <<>>

\* input texts; Tokenize gives the number of tokens of each
Texts == {"", "a", "ab", "abc", "abcd"}

Tokenize(t) ==
    CASE t = "" -> 0
      [] t = "a" -> 1
      [] t = "ab" -> 2
      [] t = "abc" -> 3
      [] t = "abcd" -> 4

\* KL(p || uniform) of the final-position distribution in eval mode
KLOf(t) ==
    CASE t = "a" -> Rat(15633, 16000000)
      [] t = "ab" -> RInt(1)
      [] t = "abc" -> RZero
      [] t = "abcd" -> Rat(1, 1000)
      [] OTHER -> RZero

\* the KL values forward can give: dropout perturbs the logits in train mode
KLValues(t, train) ==
    IF train THEN {KLOf(t), RAdd(KLOf(t), RInt(1))} ELSE {KLOf(t)}

ParamNames == {"lm_head.weight", "h0.weight", "frozen.bias"}

InitialParams == [p \in ParamNames |-> 7]

\* d loss / d p in eval mode; None for a parameter outside the loss's graph
GradOf(t, p) ==
    CASE p = "frozen.bias" -> None
      [] p = "lm_head.weight" -> <<Tokenize(t) % 3>>
      [] p = "h0.weight" -> <<0 - Tokenize(t)>>

\* the gradients one backward pass can produce, dropout in the forward pass or not
GradChoices(t, dropout) ==
    IF dropout
    THEN {[p \in ParamNames |-> GradOf(t, p)],
          [p \in ParamNames |-> IF GradOf(t, p) = None THEN None
                                ELSE <<GradOf(t, p)[1] + 1>>]}
    ELSE {[p \in ParamNames |-> GradOf(t, p)]}

\* t in n, for the layer patterns and parameter names of the mock
NameContains(n, t) ==
    \/ t = "lm_head" /\ n = "lm_head.weight"
    \/ t = "h0" /\ n = "h0.weight"
    \/ t = "weight" /\ n \in {"lm_head.weight", "h0.weight"}

(***************************************************************************)
(* NoveltyConfig.                                                          *)
(***************************************************************************)
DefaultConfig ==
    [attention_normalizer |-> RInt(512),
     eps |-> Rat(1, 1000000),
     target_layers |-> <<"lm_head">>,
     novelty_threshold |-> Rat(1, 2)]

\* the dataclass validates nothing: any numbers construct a config
Configs ==
    {DefaultConfig,
     [DefaultConfig EXCEPT !.attention_normalizer = RInt(2), !.eps = Rat(1, 2),
                           !.target_layers = <<"h0", "weight">>],
     [DefaultConfig EXCEPT !.attention_normalizer = RInt(0)],
     [DefaultConfig EXCEPT !.attention_normalizer = RInt(-2), !.eps = Rat(1, 2)],
     [DefaultConfig EXCEPT !.attention_normalizer = RInt(2), !.eps = RZero,
                           !.target_layers = <<"frozen">>]}

(***************************************************************************)
(* Pure parts of NoveltyEngine.compute.                                    *)
(***************************************************************************)
\* model.zero_grad(set_to_none=True)
ZeroGrad(g) == [p \in ParamNames |-> None]

\* loss.backward(): each parameter in the graph accumulates into its .grad
Accumulate(old, g) ==
    [p \in ParamNames |->
        IF g[p] = None THEN old[p]
        ELSE IF old[p] = None THEN g[p]
        ELSE <<old[p][1] + g[p][1]>>]

\* a gradient-descent step applied to the weights (what compute never does)
ParamsAfterOptimizerStep(ps, g) ==
    [p \in ParamNames |-> IF g[p] = None THEN ps[p] ELSE ps[p] - g[p][1]]

\* backward() writes gradient accumulators only, never parameter values
ParamsAfterBackward(ps, g) == ps

\* any(t in n for t in self.config.target_layers)
Selected(n, layers) == \E k \in 1..Len(layers) : NameContains(n, layers[k])

RECURSIVE SumSquares(_, _)
SumSquares(g, ps) ==
    IF ps = {} THEN 0
    ELSE LET p == CHOOSE q \in ps : TRUE
         IN  g[p][1] * g[p][1] + SumSquares(g, ps \ {p})

\* sum(p.grad.pow(2).sum().item() for selected parameters with a gradient)
FisherTrace(g, layers) ==
    SumSquares(g, {p \in ParamNames : Selected(p, layers) /\ g[p] # None})

\* the two divisions of the novelty formula are defined (no ZeroDivisionError)
DivisionDefined(token_count, cfg) ==
    /\ cfg.attention_normalizer.n # 0
    /\ RAdd(RDiv(RInt(token_count), cfg.attention_normalizer), cfg.eps).n # 0

\* the length taken from the batch dimension (shape[0], always 1)
DenominatorBatchDim(token_count, cfg) ==
    RAdd(RDiv(RInt(1), cfg.attention_normalizer), cfg.eps)

\* (token_count / attention_normalizer) + eps
Denominator(token_count, cfg) ==
    RAdd(RDiv(RInt(token_count), cfg.attention_normalizer), cfg.eps)

\* (float(kl) * fisher_trace) / ((token_count / attention_normalizer) + eps)
NoveltyFn(k, fisher, token_count, cfg) ==
    RDiv(RMul(k, RInt(fisher)), Denominator(token_count, cfg))

NoResult == [novelty |-> RZero, kl |-> RZero, fisher |-> 0, tokens |-> 0]

(***************************************************************************)
(* NoveltyEngine.compute, one action per statement group.                  *)
(***************************************************************************)
\* inputs = tokenizer(text, return_tensors="pt", truncation=True)
TokenizeStep ==
    /\ pc = "tokenize"
    /\ inputs' = Tokenize(text)
    /\ pc' = "kl"
    /\ UNCHANGED <<training, params, grads, config, text, kl, lossDropout,
                   fisher_trace, result, err, fwdCalls>>

\* Step 1: forward pass under no_grad in whatever mode the model is in; an
\* empty input makes the forward pass (or the [:, -1, :] index) raise
KLForward ==
    /\ pc = "kl"
    /\ fwdCalls' = fwdCalls + 1
    /\ IF inputs = 0
       THEN /\ err' \in {"RuntimeError", "IndexError"}
            /\ pc' = "raised"
            /\ kl' = kl
       ELSE /\ kl' \in KLValues(text, training)
            /\ pc' = "eval"
            /\ err' = err
    /\ UNCHANGED <<training, params, grads, config, text, inputs, lossDropout,
                   fisher_trace, result>>

\* model.eval()
SetEval ==
    /\ pc = "eval"
    /\ training' = FALSE
    /\ pc' = "loss"
    /\ UNCHANGED <<params, grads, config, text, inputs, kl, lossDropout,
                   fisher_trace, result, err, fwdCalls>>

\* outputs = model(**inputs, labels=inputs["input_ids"])
LossForward ==
    /\ pc = "loss"
    /\ lossDropout' = training
    /\ fwdCalls' = fwdCalls + 1
    /\ pc' = "zero1"
    /\ UNCHANGED <<training, params, grads, config, text, inputs, kl,
                   fisher_trace, result, err>>

\* the reset before backward left out
ZeroGradBeforeSkipped ==
    /\ pc = "zero1"
    /\ pc' = "backward"
    /\ UNCHANGED <<training, params, grads, config, text, inputs, kl, lossDropout,
                   fisher_trace, result, err, fwdCalls>>

\* model.zero_grad(set_to_none=True), before backward
ZeroGradBefore ==
    /\ pc = "zero1"
    /\ grads' = ZeroGrad(grads)
    /\ pc' = "backward"
    /\ UNCHANGED <<training, params, config, text, inputs, kl, lossDropout,
                   fisher_trace, result, err, fwdCalls>>

\* outputs.loss.backward()
Backward ==
    /\ pc = "backward"
    /\ \E g \in GradChoices(text, lossDropout) :
          /\ grads' = Accumulate(grads, g)
          /\ params' = ParamsAfterBackward(params, g)
    /\ pc' = "trace"
    /\ UNCHANGED <<training, config, text, inputs, kl, lossDropout,
                   fisher_trace, result, err, fwdCalls>>

\* fisher_trace = sum(...)
Trace ==
    /\ pc = "trace"
    /\ fisher_trace' = FisherTrace(grads, config.target_layers)
    /\ pc' = "zero2"
    /\ UNCHANGED <<training, params, grads, config, text, inputs, kl,
                   lossDropout, result, err, fwdCalls>>

\* model.zero_grad(set_to_none=True), after the trace
ZeroGradAfter ==
    /\ pc = "zero2"
    /\ grads' = ZeroGrad(grads)
    /\ pc' = "novelty"
    /\ UNCHANGED <<training, params, config, text, inputs, kl, lossDropout,
                   fisher_trace, result, err, fwdCalls>>

\* Step 3: token_count, the novelty score, and the returned dict
NoveltyStep ==
    /\ pc = "novelty"
    /\ IF DivisionDefined(inputs, config)
       THEN /\ result' = [novelty |-> NoveltyFn(kl, fisher_trace, inputs, config),
                          kl |-> kl, fisher |-> fisher_trace, tokens |-> inputs]
            /\ pc' = "returned"
            /\ err' = err
       ELSE /\ err' = "ZeroDivisionError"
            /\ pc' = "raised"
            /\ result' = result
    /\ UNCHANGED <<training, params, grads, config, text, inputs, kl,
                   lossDropout, fisher_trace, fwdCalls>>

ComputeStep ==
    \/ TokenizeStep
    \/ KLForward
    \/ SetEval
    \/ LossForward
    \/ ZeroGradBefore
    \/ Backward
    \/ Trace
    \/ ZeroGradAfter
    \/ NoveltyStep

\* the frame of a new call
EnterCompute(t) ==
    /\ text' = t
    /\ pc' = "tokenize"
    /\ inputs' = 0
    /\ kl' = RZero
    /\ lossDropout' = FALSE
    /\ fisher_trace' = 0
    /\ result' = NoResult
    /\ err' = ""
    /\ fwdCalls' = 0
    /\ UNCHANGED <<training, params, grads, config>>

FrameInit ==
    /\ pc = "idle"
    /\ text = ""
    /\ inputs = 0
    /\ kl = RZero
    /\ lossDropout = FALSE
    /\ fisher_trace = 0
    /\ result = NoResult
    /\ err = ""
    /\ fwdCalls = 0

(***************************************************************************)
(* A client that calls compute directly on one shared model.               *)
(***************************************************************************)
StaleGrads == [p \in ParamNames |-> <<5>>]

Call ==
    /\ pc = "idle"
    /\ Len(history) < MaxCalls
    /\ \E t \in Texts : EnterCompute(t)
    /\ UNCHANGED history

ClientReturn ==
    /\ pc = "returned"
    /\ history' = Append(history, [text |-> text, outcome |-> "returned",
                                   result |-> result, err |-> ""])
    /\ pc' = "idle"
    /\ UNCHANGED <<training, params, grads, config, text, inputs, kl, lossDropout,
                   fisher_trace, result, err, fwdCalls>>

ClientCatch ==
    /\ pc = "raised"
    /\ history' = Append(history, [text |-> text, outcome |-> "raised",
                                   result |-> NoResult, err |-> err])
    /\ pc' = "idle"
    /\ UNCHANGED <<training, params, grads, config, text, inputs, kl, lossDropout,
                   fisher_trace, result, err, fwdCalls>>

SimIdle ==
    /\ simpc = "off" /\ texts = <<>> /\ i = 0 /\ data_log = <<>> /\ metrics = <<>>
    /\ console = <<>> /\ plot = <<>> /\ csv = <<>> /\ csvWritten = FALSE
    /\ surfaced = ""

FormulaIdle == f_in = NoResult /\ f_tokens = 0 /\ f_out = <<>>

RigIdle ==
    /\ mpc = "off" /\ fut = <<>> /\ wpc = <<>> /\ round = <<>> /\ ser_lock = 0
    /\ pollIdx = 0
    /\ serOpen = FALSE /\ onWire = {} /\ statsLen = 0 /\ summary = <<>>

Init ==
    /\ training \in BOOLEAN
    /\ params = InitialParams
    /\ grads \in {ZeroGrad(StaleGrads), StaleGrads}
    /\ config \in Configs
    /\ FrameInit
    /\ history = <<>>
    /\ SimIdle
    /\ FormulaIdle
    /\ RigIdle

Next ==
    \/ Call /\ UNCHANGED <<simVars, formulaVars, rigVars>>
    \/ TokenizeStep /\ UNCHANGED <<clientVars, simVars, formulaVars, rigVars>>
    \/ KLForward /\ UNCHANGED <<clientVars, simVars, formulaVars, rigVars>>
    \/ SetEval /\ UNCHANGED <<clientVars, simVars, formulaVars, rigVars>>
    \/ LossForward /\ UNCHANGED <<clientVars, simVars, formulaVars, rigVars>>
    \/ ZeroGradBefore /\ UNCHANGED <<clientVars, simVars, formulaVars, rigVars>>
    \/ Backward /\ UNCHANGED <<clientVars, simVars, formulaVars, rigVars>>
    \/ Trace /\ UNCHANGED <<clientVars, simVars, formulaVars, rigVars>>
    \/ ZeroGradAfter /\ UNCHANGED <<clientVars, simVars, formulaVars, rigVars>>
    \/ NoveltyStep /\ UNCHANGED <<clientVars, simVars, formulaVars, rigVars>>
    \/ ClientReturn /\ UNCHANGED <<simVars, formulaVars, rigVars>>
    \/ ClientCatch /\ UNCHANGED <<simVars, formulaVars, rigVars>>

Spec == Init /\ [][Next]_vars

\* the configurations the spec's data model allows (both constants positive)
ValidConfigs ==
    {c \in Configs : RLT(RZero, c.attention_normalizer) /\ RLT(RZero, c.eps)}

InitValid == Init /\ config \in ValidConfigs

\* the same client, with an engine built from a valid configuration
SpecValid == InitValid /\ [][Next]_vars

(***************************************************************************)
(* Properties of compute under direct calls (Spec, SpecValid).             *)
(***************************************************************************)
NoGrads == \A p \in ParamNames : grads[p] = None

Returned(j) == history[j].outcome = "returned"

\* C1: the gradient accumulators are empty right before the backward pass and
\* when compute returns, and the fisher trace compute reports for a text is the
\* same however many calls (and whatever stale gradients) came before it.
C1_NoGradientLeak ==
    /\ pc \in {"backward", "novelty", "returned"} => NoGrads
    /\ \A j, k \in DOMAIN history :
          (Returned(j) /\ Returned(k) /\ history[j].text = history[k].text)
              => history[j].result.fisher = history[k].result.fisher

C1_Witness ==
    /\ Len(history) = 3
    /\ Returned(1) /\ Returned(2) /\ Returned(3)
    /\ history[1].text = history[3].text
    /\ history[2].text # history[1].text
    /\ history[1].result.fisher > 0
    /\ history[2].result.fisher > 0

\* C2: two successive calls on the same text return identical results,
\* whatever mode the model was in before the first of them.
C2_SuccessiveCallsIdentical ==
    \A j \in DOMAIN history :
        (j + 1 \in DOMAIN history /\ Returned(j) /\ Returned(j + 1)
            /\ history[j].text = history[j + 1].text)
            => history[j].result = history[j + 1].result

\* C3 as stated: a step of compute changes no model state but the gradient
\* accumulators (neither the parameter values nor the train/eval mode).
C3_OnlyGradsTouched ==
    [][ComputeStep => UNCHANGED <<params, training>>]_vars

\* C3 as amended: a step of compute never changes a parameter value; besides
\* the gradient accumulators, which only the two resets and the backward pass
\* write and which are empty on return, it changes only the train/eval mode,
\* and that only to eval.
C3_ParamsUnchanged ==
    [][ComputeStep =>
          /\ params' = params
          /\ (training' # training => training' = FALSE /\ pc = "eval")
          /\ (grads' # grads => pc \in {"zero1", "backward", "zero2"})
          /\ (pc' = "returned" => \A p \in ParamNames : grads'[p] = None)]_vars

C3_Witness ==
    /\ pc = "trace"
    /\ grads["h0.weight"] # None
    /\ params = InitialParams
    /\ Len(history) = 2

\* C4: an input of zero tokens is rejected with InvalidInputError before any
\* forward pass has run.
C4_EmptyInputRejected ==
    (pc = "raised" /\ inputs = 0) => (err = "InvalidInputError" /\ fwdCalls = 0)

\* C9: whenever compute reaches the novelty formula, under any configuration the
\* engine was built with, the denominator is strictly positive, and a returned
\* novelty is non-negative when kl and fisher are.
C9_DenominatorPositive ==
    /\ pc = "novelty" =>
          /\ config.attention_normalizer.n # 0
          /\ RGT(Denominator(inputs, config), RZero)
    /\ (pc = "returned" /\ RLE(RZero, result.kl) /\ result.fisher >= 0)
          => RLE(RZero, result.novelty)

(***************************************************************************)
(* run_simulation_2d: the loop over the texts, its sinks, and the export.  *)
(***************************************************************************)
\* the comparison with >= in place of >
IsOutlierOrEqual(res, cfg) == RLE(cfg.novelty_threshold, res.novelty)

\* res["novelty"] > config.novelty_threshold
IsOutlier(res, cfg) == RGT(res.novelty, cfg.novelty_threshold)

\* f"{x:.4f}" as a count of ten-thousandths (x >= 0; half rounds up)
Score4(x) ==
    (x.n \div x.d) * 10000 + (((x.n % x.d) * 10000 + (x.d \div 2)) \div x.d)

\* the row appended to data_log: {"text": text, "is_alert": is_outlier, **res}
LogRow(t, res, alert) ==
    [text |-> t, is_alert |-> alert, novelty |-> res.novelty, kl |-> res.kl,
     fisher |-> res.fisher, tokens |-> res.tokens]

\* the printed line: step number, text prefix (the texts here are shorter than
\* 30 characters), score to 4 places, alert status
ConsoleLine(k, t, res, alert) ==
    [step |-> k, text |-> t, score |-> Score4(res.novelty), alert |-> alert]

\* the point added to the three plotted series
MetricPoint(res) == [novelty |-> res.novelty, kl |-> res.kl, fisher |-> res.fisher]

SeqsUpTo(S, n) == UNION {[1..k -> S] : k \in 0..n}

\* for i, text in enumerate(texts): res = engine.compute(text, model, tokenizer)
SimCall ==
    /\ simpc = "loop"
    /\ i < Len(texts)
    /\ pc = "idle"
    /\ EnterCompute(texts[i + 1])
    /\ simpc' = "computing"
    /\ UNCHANGED <<texts, i, data_log, metrics, console, plot, csv, csvWritten,
                   surfaced>>

\* the console line left out of the loop body
SimRecordNoConsole ==
    /\ simpc = "computing"
    /\ pc = "returned"
    /\ LET alert == IsOutlier(result, config)
       IN  /\ metrics' = Append(metrics, MetricPoint(result))
           /\ data_log' = Append(data_log, LogRow(text, result, alert))
           /\ plot' = metrics'
    /\ i' = i + 1
    /\ pc' = "idle"
    /\ simpc' = "loop"
    /\ UNCHANGED <<training, params, grads, config, text, inputs, kl, lossDropout,
                   fisher_trace, result, err, fwdCalls>>
    /\ UNCHANGED <<texts, console, csv, csvWritten, surfaced>>

\* the rest of the loop body: classify, log, print, redraw the plots
SimRecord ==
    /\ simpc = "computing"
    /\ pc = "returned"
    /\ LET alert == IsOutlier(result, config)
       IN  /\ metrics' = Append(metrics, MetricPoint(result))
           /\ data_log' = Append(data_log, LogRow(text, result, alert))
           /\ console' = Append(console, ConsoleLine(i + 1, text, result, alert))
           /\ plot' = metrics'
    /\ i' = i + 1
    /\ pc' = "idle"
    /\ simpc' = "loop"
    /\ UNCHANGED <<training, params, grads, config, text, inputs, kl, lossDropout,
                   fisher_trace, result, err, fwdCalls>>
    /\ UNCHANGED <<texts, csv, csvWritten, surfaced>>

\* compute raised: nothing in run_simulation_2d catches it, the frame (data_log,
\* metrics) is unwound and the exception reaches the caller; what the console
\* and the figure already received stays
SimPropagate ==
    /\ simpc = "computing"
    /\ pc = "raised"
    /\ surfaced' = err
    /\ data_log' = <<>>
    /\ metrics' = <<>>
    /\ pc' = "idle"
    /\ simpc' = "raised"
    /\ UNCHANGED <<training, params, grads, config, text, inputs, kl, lossDropout,
                   fisher_trace, result, err, fwdCalls>>
    /\ UNCHANGED <<texts, i, console, plot, csv, csvWritten>>

\* after the loop: writer.writeheader(); writer.writerows(data_log)
SimExport ==
    /\ simpc = "loop"
    /\ i = Len(texts)
    /\ csv' = data_log
    /\ csvWritten' = TRUE
    /\ simpc' = "done"
    /\ UNCHANGED engineVars
    /\ UNCHANGED <<texts, i, data_log, metrics, console, plot, surfaced>>

\* from_pretrained returns the model in eval mode with no gradients; the
\* engine is built from NoveltyConfig()
InitSim ==
    /\ training = FALSE
    /\ params = InitialParams
    /\ grads = ZeroGrad(StaleGrads)
    /\ config = DefaultConfig
    /\ FrameInit
    /\ history = <<>>
    /\ simpc = "loop"
    /\ texts \in SeqsUpTo(Texts, MaxTexts)
    /\ i = 0 /\ data_log = <<>> /\ metrics = <<>>
    /\ console = <<>> /\ plot = <<>> /\ csv = <<>> /\ csvWritten = FALSE
    /\ surfaced = ""
    /\ FormulaIdle
    /\ RigIdle

NextSim ==
    \/ SimCall /\ UNCHANGED <<clientVars, formulaVars, rigVars>>
    \/ TokenizeStep /\ UNCHANGED <<clientVars, simVars, formulaVars, rigVars>>
    \/ KLForward /\ UNCHANGED <<clientVars, simVars, formulaVars, rigVars>>
    \/ SetEval /\ UNCHANGED <<clientVars, simVars, formulaVars, rigVars>>
    \/ LossForward /\ UNCHANGED <<clientVars, simVars, formulaVars, rigVars>>
    \/ ZeroGradBefore /\ UNCHANGED <<clientVars, simVars, formulaVars, rigVars>>
    \/ Backward /\ UNCHANGED <<clientVars, simVars, formulaVars, rigVars>>
    \/ Trace /\ UNCHANGED <<clientVars, simVars, formulaVars, rigVars>>
    \/ ZeroGradAfter /\ UNCHANGED <<clientVars, simVars, formulaVars, rigVars>>
    \/ NoveltyStep /\ UNCHANGED <<clientVars, simVars, formulaVars, rigVars>>
    \/ SimRecord /\ UNCHANGED <<clientVars, formulaVars, rigVars>>
    \/ SimPropagate /\ UNCHANGED <<clientVars, formulaVars, rigVars>>
    \/ SimExport /\ UNCHANGED <<clientVars, formulaVars, rigVars>>

SpecSim == InitSim /\ [][NextSim]_vars

(***************************************************************************)
(* Properties of run_simulation_2d (SpecSim).                              *)
(***************************************************************************)
\* C5 as stated: while text i+1 is being evaluated, every sink (console, plot,
\* CSV) already holds exactly the records of texts 1..i, in input order.
C5_AllSinksStreamed ==
    simpc = "computing" =>
        /\ text = texts[i + 1]
        /\ Len(console) = i
        /\ Len(plot) = i
        /\ Len(csv) = i

\* C5 as amended: texts are evaluated one at a time in input order; the console
\* and the plot hold exactly one entry per evaluated text, in input order,
\* before the next evaluation begins; the CSV file receives nothing until the
\* loop has ended without a failure, and then every row at once, in input order.
C5_ConsoleAndPlotStreamedCsvBatched ==
    /\ simpc = "computing" => text = texts[i + 1]
    /\ i <= Len(texts)
    /\ Len(console) = i
    /\ Len(plot) = i
    /\ \A j \in 1..i : console[j].step = j /\ console[j].text = texts[j]
    /\ simpc \in {"loop", "computing", "done"} =>
          /\ Len(data_log) = i
          /\ \A j \in 1..i :
                /\ data_log[j].text = texts[j]
                /\ console[j].alert = data_log[j].is_alert
                /\ console[j].score = Score4(data_log[j].novelty)
                /\ plot[j] = [novelty |-> data_log[j].novelty,
                              kl |-> data_log[j].kl,
                              fisher |-> data_log[j].fisher]
    /\ csvWritten <=> simpc = "done"
    /\ ~csvWritten => csv = <<>>
    /\ csvWritten => (i = Len(texts) /\ csv = data_log)

C5_Witness ==
    /\ simpc = "computing"
    /\ pc = "backward"
    /\ i = 2
    /\ Len(console) = 2
    /\ console[1].text # console[2].text
    /\ ~csvWritten

\* C6: when evaluation of text k fails, the failure reaches the caller and the
\* results of texts 1..k-1 are still held, unaltered, by every sink they were
\* collected for.
C6_FailureKeepsPriorResults ==
    simpc = "raised" =>
        /\ surfaced # ""
        /\ Len(console) = i
        /\ Len(plot) = i
        /\ Len(csv) = i
        /\ \A j \in 1..i : csv[j].text = texts[j]

\* C7: a text is flagged as an alert exactly when its novelty is strictly
\* greater than the threshold; novelty equal to the threshold is no alert.
C7_AlertIffStrictlyGreater ==
    /\ \A j \in DOMAIN data_log :
          /\ data_log[j].is_alert <=> RLT(config.novelty_threshold, data_log[j].novelty)
          /\ data_log[j].novelty = config.novelty_threshold => ~data_log[j].is_alert
    /\ \A j \in DOMAIN csv :
          csv[j].is_alert <=> RLT(config.novelty_threshold, csv[j].novelty)
    /\ \A j \in DOMAIN console :
          j \in DOMAIN data_log => console[j].alert = data_log[j].is_alert

C7_Witness ==
    /\ Len(data_log) = 3
    /\ data_log[1].novelty = config.novelty_threshold /\ ~data_log[1].is_alert
    /\ RLT(config.novelty_threshold, data_log[2].novelty) /\ data_log[2].is_alert
    /\ RLT(data_log[3].novelty, config.novelty_threshold) /\ ~data_log[3].is_alert
    /\ data_log[3].novelty.n > 0

(***************************************************************************)
(* The novelty formula on drawn inputs: kl, fisher and a configuration with *)
(* positive attention_normalizer and eps are fixed, token_count grows.     *)
(***************************************************************************)
FormulaKLs == {RZero, Rat(1, 1000), RInt(1), Rat(15633, 16000000)}
FormulaFishers == {0, 1, 4}
FormulaConfigs ==
    {[DefaultConfig EXCEPT !.attention_normalizer = a, !.eps = e] :
        a \in {RInt(512), RInt(2), Rat(1, 2)}, e \in {Rat(1, 1000000), Rat(1, 2)}}

InitFormula ==
    /\ training = FALSE
    /\ params = InitialParams
    /\ grads = ZeroGrad(StaleGrads)
    /\ config = DefaultConfig
    /\ FrameInit
    /\ history = <<>>
    /\ SimIdle
    /\ f_in \in [kl : FormulaKLs, fisher : FormulaFishers, cfg : FormulaConfigs]
    /\ f_tokens = 0
    /\ f_out = <<>>
    /\ RigIdle

\* the formula applied at a larger token count than the last time
Evaluate ==
    /\ \E t \in (f_tokens + 1)..MaxTokenCount :
          /\ f_tokens' = t
          /\ f_out' = Append(f_out,
                 [tokens |-> t,
                  novelty |-> NoveltyFn(f_in.kl, f_in.fisher, t, f_in.cfg)])
    /\ UNCHANGED f_in

NextFormula ==
    Evaluate /\ UNCHANGED <<engineVars, clientVars, simVars, rigVars>>

SpecFormula == InitFormula /\ [][NextFormula]_vars

\* C8 as stated: for every non-negative kl and fisher, a larger token_count
\* gives a strictly smaller novelty.
C8_StrictlyDecreasing ==
    \A j, k \in DOMAIN f_out :
        f_out[j].tokens < f_out[k].tokens => RLT(f_out[k].novelty, f_out[j].novelty)

\* C8 as amended: a larger token_count never gives a larger novelty; it gives
\* a strictly smaller one when kl * fisher > 0, and novelty stays 0 when kl or
\* fisher is 0.
C8_NonIncreasingStrictWhenPositive ==
    \A j, k \in DOMAIN f_out :
        f_out[j].tokens < f_out[k].tokens =>
            /\ RLE(f_out[k].novelty, f_out[j].novelty)
            /\ (f_in.kl.n > 0 /\ f_in.fisher > 0)
                  => RLT(f_out[k].novelty, f_out[j].novelty)
            /\ (f_in.kl.n = 0 \/ f_in.fisher = 0)
                  => (f_out[j].novelty = RZero /\ f_out[k].novelty = RZero)

C8_Witness ==
    /\ Len(f_out) >= 3
    /\ f_in.kl.n > 0
    /\ f_in.fisher > 0
    /\ f_in.cfg.attention_normalizer = RInt(512)
    /\ f_in.cfg.eps = Rat(1, 1000000)
    /\ RLT(f_out[3].novelty, f_out[1].novelty)

(***************************************************************************)
(* The power-measurement rig: master_controller and its run_instance       *)
(* workers on a ThreadPoolExecutor, sharing one serial port under ser_lock. *)
(***************************************************************************)
Workers == 1..INSTANCES

AllFinished == \A w \in Workers : fut[w] = "finished"

InitRig ==
    /\ training = FALSE
    /\ params = InitialParams
    /\ grads = ZeroGrad(StaleGrads)
    /\ config = DefaultConfig
    /\ FrameInit
    /\ history = <<>>
    /\ SimIdle
    /\ FormulaIdle
    /\ mpc = "open"
    /\ fut = [w \in Workers |-> "none"]
    /\ wpc = [w \in Workers |-> "work"]
    /\ round = [w \in Workers |-> 0]
    /\ ser_lock = 0
    /\ pollIdx = 0
    /\ serOpen = FALSE
    /\ onWire = {}
    /\ statsLen = 0
    /\ summary = <<>>

\* ser = serial.Serial(PORT, BAUDRATE, timeout=0.05); stats = {...}
MasterOpen ==
    /\ mpc = "open"
    /\ serOpen' = TRUE
    /\ mpc' = "submit"
    /\ UNCHANGED <<fut, wpc, round, ser_lock, pollIdx, onWire, statsLen, summary>>

\* serial.Serial raises (no such port): the except clause logs it
MasterOpenFails ==
    /\ mpc = "open"
    /\ mpc' = "error"
    /\ UNCHANGED <<fut, wpc, round, ser_lock, pollIdx, serOpen, onWire, statsLen,
                   summary>>

\* futures = [executor.submit(run_instance, i, ...) for i in range(INSTANCES)]
MasterSubmit ==
    /\ mpc = "submit"
    /\ LET w == CHOOSE v \in Workers :
                  fut[v] = "none" /\ \A u \in Workers : u < v => fut[u] # "none"
       IN  /\ fut' = [fut EXCEPT ![w] = "pending"]
           /\ IF w = INSTANCES
              THEN mpc' = "poll" /\ pollIdx' = 1
              ELSE mpc' = "submit" /\ pollIdx' = pollIdx
    /\ UNCHANGED <<wpc, round, ser_lock, serOpen, onWire, statsLen, summary>>

\* while any(f.running() for f in futures): time.sleep(0.1)
\* the scan reads one future at a time and stops at the first running one
MasterPoll ==
    /\ mpc = "poll"
    /\ IF fut[pollIdx] = "running"
       THEN mpc' = "poll" /\ pollIdx' = 1
       ELSE IF pollIdx = INSTANCES
            THEN mpc' = "shutdown" /\ pollIdx' = 0
            ELSE mpc' = "poll" /\ pollIdx' = pollIdx + 1
    /\ UNCHANGED <<fut, wpc, round, ser_lock, serOpen, onWire, statsLen, summary>>

\* leaving the with block without waiting for the workers
MasterShutdownNoWait ==
    /\ mpc = "shutdown"
    /\ mpc' = "close"
    /\ UNCHANGED <<fut, wpc, round, ser_lock, pollIdx, serOpen, onWire, statsLen,
                   summary>>

\* leaving the with block: executor.shutdown(wait=True) joins every worker
MasterShutdown ==
    /\ mpc = "shutdown"
    /\ AllFinished
    /\ mpc' = "close"
    /\ UNCHANGED <<fut, wpc, round, ser_lock, pollIdx, serOpen, onWire, statsLen,
                   summary>>

\* ser.close()
MasterClose ==
    /\ mpc = "close"
    /\ serOpen' = FALSE
    /\ mpc' = "summary"
    /\ UNCHANGED <<fut, wpc, round, ser_lock, pollIdx, onWire, statsLen, summary>>

\* the final summary, from the stats the workers appended
MasterSummary ==
    /\ mpc = "summary"
    /\ summary' = <<statsLen>>
    /\ mpc' = "done"
    /\ UNCHANGED <<fut, wpc, round, ser_lock, pollIdx, serOpen, onWire, statsLen>>

\* a pool thread takes the work item: the future becomes running
WorkerStart(w) ==
    /\ fut[w] = "pending"
    /\ fut' = [fut EXCEPT ![w] = "running"]
    /\ UNCHANGED <<mpc, wpc, round, ser_lock, pollIdx, serOpen, onWire, statsLen,
                   summary>>

\* the round's payload and CPU workload, then: with ser_lock (acquire)
WorkerAcquire(w) ==
    /\ fut[w] = "running"
    /\ wpc[w] = "work"
    /\ ser_lock = 0
    /\ ser_lock' = w
    /\ wpc' = [wpc EXCEPT ![w] = "locked"]
    /\ UNCHANGED <<mpc, fut, round, pollIdx, serOpen, onWire, statsLen, summary>>

\* ser.write(data)
WorkerWrite(w) ==
    /\ fut[w] = "running"
    /\ wpc[w] = "locked"
    /\ onWire' = onWire \cup {w}
    /\ wpc' = [wpc EXCEPT ![w] = "written"]
    /\ UNCHANGED <<mpc, fut, round, ser_lock, pollIdx, serOpen, statsLen, summary>>

\* ser.read(len(data)), then the with block releases ser_lock
WorkerRead(w) ==
    /\ fut[w] = "running"
    /\ wpc[w] = "written"
    /\ onWire' = onWire \ {w}
    /\ ser_lock' = IF ser_lock = w THEN 0 ELSE ser_lock
    /\ wpc' = [wpc EXCEPT ![w] = "stats"]
    /\ UNCHANGED <<mpc, fut, round, pollIdx, serOpen, statsLen, summary>>

\* the round's stats are appended; after the last round the future finishes
WorkerRecord(w) ==
    /\ fut[w] = "running"
    /\ wpc[w] = "stats"
    /\ statsLen' = statsLen + 1
    /\ round' = [round EXCEPT ![w] = round[w] + 1]
    /\ IF round[w] + 1 = ROUNDS_PER_INST
       THEN fut' = [fut EXCEPT ![w] = "finished"] /\ wpc' = [wpc EXCEPT ![w] = "end"]
       ELSE fut' = fut /\ wpc' = [wpc EXCEPT ![w] = "work"]
    /\ UNCHANGED <<mpc, ser_lock, pollIdx, serOpen, onWire, summary>>

NextRig ==
    \/ MasterOpen /\ UNCHANGED <<engineVars, clientVars, simVars, formulaVars>>
    \/ MasterOpenFails /\ UNCHANGED <<engineVars, clientVars, simVars, formulaVars>>
    \/ MasterSubmit /\ UNCHANGED <<engineVars, clientVars, simVars, formulaVars>>
    \/ MasterPoll /\ UNCHANGED <<engineVars, clientVars, simVars, formulaVars>>
    \/ MasterShutdown /\ UNCHANGED <<engineVars, clientVars, simVars, formulaVars>>
    \/ MasterClose /\ UNCHANGED <<engineVars, clientVars, simVars, formulaVars>>
    \/ MasterSummary /\ UNCHANGED <<engineVars, clientVars, simVars, formulaVars>>
    \/ \E w \in Workers :
          WorkerStart(w) /\ UNCHANGED <<engineVars, clientVars, simVars, formulaVars>>
    \/ \E w \in Workers :
          WorkerAcquire(w) /\ UNCHANGED <<engineVars, clientVars, simVars, formulaVars>>
    \/ \E w \in Workers :
          WorkerWrite(w) /\ UNCHANGED <<engineVars, clientVars, simVars, formulaVars>>
    \/ \E w \in Workers :
          WorkerRead(w) /\ UNCHANGED <<engineVars, clientVars, simVars, formulaVars>>
    \/ \E w \in Workers :
          WorkerRecord(w) /\ UNCHANGED <<engineVars, clientVars, simVars, formulaVars>>

SpecRig == InitRig /\ [][NextRig]_vars

InExchange == {w \in Workers : wpc[w] \in {"locked", "written"}}

\* C10: the serial port is closed and the summary computed only after every
\* worker has finished all its rounds, under every interleaving; and at most
\* one worker at a time is inside the write-then-read exchange.
C10_CloseAfterWorkersAndExclusiveExchange ==
    /\ mpc \in {"close", "summary", "done"} =>
          \A w \in Workers : fut[w] = "finished" /\ round[w] = ROUNDS_PER_INST
    /\ (~serOpen /\ mpc \notin {"open", "error"}) => AllFinished
    /\ summary # <<>> =>
          /\ AllFinished
          /\ summary = <<INSTANCES * ROUNDS_PER_INST>>
    /\ Cardinality(InExchange) <= 1
    /\ Cardinality(onWire) <= 1
    /\ \A w \in Workers : wpc[w] \in {"locked", "written"} => serOpen

\* the poll loop was left while a future was still pending, another worker is
\* in the middle of its exchange, and the controller waits at the with block
C10_Witness ==
    /\ mpc = "shutdown"
    /\ serOpen
    /\ \E w \in Workers : fut[w] = "pending"
    /\ \E w \in Workers : wpc[w] = "written" /\ ser_lock = w /\ round[w] > 0

====
